---- MODULE Spec2Model ----
(***************************************************************************)
(* A model of the two notebooks of the repository:                         *)
(*   - "Saving and Loading Models" (src/unnamed/part_000): a network is    *)
(*     built, trained, its state dict and then a checkpoint dictionary are *)
(*     written to checkpoint.pth and read back;                            *)
(*   - "Training Neural Networks"                                          *)
(*     (src/s1_development_environment/exercise_files/                     *)
(*      3_Training_Neural_Networks.ipynb): gradients, one training step    *)
(*     and the training loop.                                              *)
(* Tensors are abstracted to a shape and a data token (a number standing   *)
(* for the contents); the numeric kernels of the framework are not         *)
(* modelled.                                                               *)
(***************************************************************************)
EXTENDS Integers, Sequences, FiniteSets, TLC

(***************************************************************************)
(* Bounds of the model.                                                    *)
(***************************************************************************)
\* how many different random initialisations of a network are told apart
NumSeeds == 3
\* how many different results a training run can have
NumOutcomes == 2
\* longest list of hidden layer sizes the generalised cells are run with
MaxHidden == 2

(***************************************************************************)
(* Program constants of the save/load notebook.                            *)
(***************************************************************************)
\* "input_size": 784 in the checkpoint dictionary of cell In[11]
CkptInputSize == 784
\* "output_size": 10 in the checkpoint dictionary of cell In[11]
CkptOutputSize == 10
\* fc_model.Network(784, 10, [512, 256, 128]) of cell In[4]
TrainedArgs == [input_size |-> 784, output_size |-> 10, hidden_layers |-> <<512, 256, 128>>]
\* fc_model.Network(784, 10, [400, 200, 100]) of cell In[10]
RebindArgs == [input_size |-> 784, output_size |-> 10, hidden_layers |-> <<400, 200, 100>>]

\* the sizes the generalised cells choose from
InputSizes == {784, 128}
OutputSizes == {10, 64}
HiddenSizes == {128, 64}
Seeds == 0 .. (NumSeeds - 1)
Outcomes == 1 .. NumOutcomes

\* the lists of hidden layer sizes of length 0 .. n
HiddenLists(n) == UNION {[1 .. k -> HiddenSizes] : k \in 0 .. n}

(***************************************************************************)
(* Python values that may be unbound or absent: <<>> is "no value",        *)
(* <<v>> is the value v.                                                   *)
(***************************************************************************)
None == <<>>
Some(v) == <<v>>
Get(o) == o[1]

(***************************************************************************)
(* fc_model.Network: a chain of nn.Linear layers.                          *)
(***************************************************************************)
\* nn.Linear(in_features, out_features) with the data of its two parameters
Linear(inf, outf, w, b) ==
    [in_features |-> inf, out_features |-> outf, weight |-> w, bias |-> b]

\* the data of the j-th parameter tensor of a network initialised with seed
InitData(seed, j) == seed * 100 + j

\* a constructor that feeds every hidden layer from the input instead of from
\* the layer before it
NetworkUnchained(input_size, output_size, hidden_layers, seed) ==
    LET n == Len(hidden_layers) IN
    [hidden_layers |->
        [i \in 1 .. n |->
            Linear(input_size, hidden_layers[i],
                   InitData(seed, 2 * i - 2), InitData(seed, 2 * i - 1))],
     output |-> Linear(hidden_layers[n], output_size,
                       InitData(seed, 2 * n), InitData(seed, 2 * n + 1))]

\* fc_model.Network(input_size, output_size, hidden_layers), randomly
\* initialised; hidden_layers is not empty (hidden_layers[0] is read)
Network(input_size, output_size, hidden_layers, seed) ==
    LET n == Len(hidden_layers) IN
    [hidden_layers |->
        [i \in 1 .. n |->
            Linear(IF i = 1 THEN input_size ELSE hidden_layers[i - 1],
                   hidden_layers[i],
                   InitData(seed, 2 * i - 2), InitData(seed, 2 * i - 1))],
     output |-> Linear(hidden_layers[n], output_size,
                       InitData(seed, 2 * n), InitData(seed, 2 * n + 1))]

\* the data of a parameter tensor after a training run with result t
TrainedData(d, t) == d + 10000 * t

TrainLinear(l, t) ==
    [l EXCEPT !.weight = TrainedData(@, t), !.bias = TrainedData(@, t)]

\* fc_model.train(model, ...): the optimizer updates every parameter in place
train(net, t) ==
    [hidden_layers |->
        [i \in 1 .. Len(net.hidden_layers) |-> TrainLinear(net.hidden_layers[i], t)],
     output |-> TrainLinear(net.output, t)]

\* [each.out_features for each in model.hidden_layers]
OutFeatures(net) ==
    [i \in 1 .. Len(net.hidden_layers) |-> net.hidden_layers[i].out_features]

(***************************************************************************)
(* model.state_dict(): an ordered mapping from parameter names to tensors. *)
(***************************************************************************)
HiddenKey(i, p) == "hidden_layers." \o ToString(i) \o "." \o p
OutputKey(p) == "output." \o p

WeightEntry(key, l) ==
    [key |-> key, shape |-> <<l.out_features, l.in_features>>, data |-> l.weight]
BiasEntry(key, l) ==
    [key |-> key, shape |-> <<l.out_features>>, data |-> l.bias]

StateDict(net) ==
    LET n == Len(net.hidden_layers) IN
    [j \in 1 .. 2 * n + 2 |->
        IF j = 2 * n + 1 THEN WeightEntry(OutputKey("weight"), net.output)
        ELSE IF j = 2 * n + 2 THEN BiasEntry(OutputKey("bias"), net.output)
        ELSE IF j % 2 = 1
             THEN WeightEntry(HiddenKey((j - 1) \div 2, "weight"),
                              net.hidden_layers[(j + 1) \div 2])
             ELSE BiasEntry(HiddenKey((j - 2) \div 2, "bias"),
                            net.hidden_layers[j \div 2])]

\* state_dict.keys()
Keys(sd) == [j \in 1 .. Len(sd) |-> sd[j].key]
KeySet(sd) == {sd[j].key : j \in 1 .. Len(sd)}
HasKey(sd, k) == k \in KeySet(sd)
Entry(sd, k) == sd[CHOOSE j \in 1 .. Len(sd) : sd[j].key = k]
Shapes(sd) == [j \in 1 .. Len(sd) |-> sd[j].shape]

(***************************************************************************)
(* torch.save and torch.load: the file holds the pickled structure (the    *)
(* names and, for every tensor, its shape and the index of its storage)    *)
(* and the storages apart from it.                                         *)
(***************************************************************************)
\* torch.save(model.state_dict(), "checkpoint.pth")
SaveStateDict(sd) ==
    [kind |-> "OrderedDict", hyper |-> <<>>,
     names |-> Keys(sd),
     refs |-> [j \in 1 .. Len(sd) |-> [storage |-> j - 1, shape |-> sd[j].shape]],
     storages |-> [j \in 1 .. Len(sd) |-> sd[j].data]]

\* torch.save(checkpoint, "checkpoint.pth") for the dictionary of cell In[11]
SaveCheckpoint(ckpt) ==
    [SaveStateDict(ckpt.state_dict) EXCEPT
        !.kind = "dict",
        !.hyper = <<ckpt.input_size, ckpt.output_size, ckpt.hidden_layers>>]

\* a reader that takes every tensor's data from the storage after its own
LoadTensorsShifted(f) ==
    [j \in 1 .. Len(f.names) |->
        [key |-> f.names[j], shape |-> f.refs[j].shape,
         data |-> f.storages[((f.refs[j].storage + 1) % Len(f.names)) + 1]]]

\* the ordered mapping of tensors a file holds
LoadTensors(f) ==
    [j \in 1 .. Len(f.names) |->
        [key |-> f.names[j], shape |-> f.refs[j].shape,
         data |-> f.storages[f.refs[j].storage + 1]]]

\* torch.load("checkpoint.pth") of a file written from a checkpoint dictionary
LoadCheckpointDict(f) ==
    [input_size |-> f.hyper[1], output_size |-> f.hyper[2],
     hidden_layers |-> f.hyper[3], state_dict |-> LoadTensors(f)]

(***************************************************************************)
(* model.load_state_dict(state_dict), strict: every parameter of the model *)
(* whose name is in state_dict with the same shape is copied; a name that  *)
(* is missing, unexpected or of another shape is an error, and any error   *)
(* raises RuntimeError after the copies.                                   *)
(***************************************************************************)
Loadable(sd, k, shape) == HasKey(sd, k) /\ Entry(sd, k).shape = shape

LoadLinear(l, sd, wkey, bkey) ==
    [l EXCEPT
        !.weight = IF Loadable(sd, wkey, <<l.out_features, l.in_features>>)
                   THEN Entry(sd, wkey).data ELSE @,
        !.bias = IF Loadable(sd, bkey, <<l.out_features>>)
                 THEN Entry(sd, bkey).data ELSE @]

\* the error messages of load_state_dict, each <<kind, parameter name>>
LoadErrors(net, sd) ==
    LET own == StateDict(net) IN
    {<<"size mismatch", k>> :
        k \in {x \in KeySet(own) : HasKey(sd, x) /\ Entry(sd, x).shape # Entry(own, x).shape}}
    \cup {<<"Missing key(s)", k>> : k \in KeySet(own) \ KeySet(sd)}
    \cup {<<"Unexpected key(s)", k>> : k \in KeySet(sd) \ KeySet(own)}

\* load_state_dict(state_dict, strict=False): a missing or an unexpected name is
\* no error
load_state_dict_not_strict(net, sd) ==
    LET errors == {e \in LoadErrors(net, sd) : e[1] = "size mismatch"} IN
    [model |->
        [hidden_layers |->
            [i \in 1 .. Len(net.hidden_layers) |->
                LoadLinear(net.hidden_layers[i], sd,
                           HiddenKey(i - 1, "weight"), HiddenKey(i - 1, "bias"))],
         output |-> LoadLinear(net.output, sd, OutputKey("weight"), OutputKey("bias"))],
     status |-> IF errors = {} THEN "ok" ELSE "RuntimeError",
     errors |-> errors]

load_state_dict(net, sd) ==
    LET errors == LoadErrors(net, sd) IN
    [model |->
        [hidden_layers |->
            [i \in 1 .. Len(net.hidden_layers) |->
                LoadLinear(net.hidden_layers[i], sd,
                           HiddenKey(i - 1, "weight"), HiddenKey(i - 1, "bias"))],
         output |-> LoadLinear(net.output, sd, OutputKey("weight"), OutputKey("bias"))],
     status |-> IF errors = {} THEN "ok" ELSE "RuntimeError",
     errors |-> errors]

\* a load_checkpoint that rebuilds the network and leaves out
\* model.load_state_dict(checkpoint["state_dict"])
load_checkpoint_no_load(f, seed) ==
    IF f.kind # "dict"
    THEN [model |-> None, status |-> "KeyError", errors |-> {}, args |-> None]
    ELSE LET checkpoint_ == LoadCheckpointDict(f) IN
         [model |-> Some(Network(checkpoint_.input_size, checkpoint_.output_size,
                                 checkpoint_.hidden_layers, seed)),
          status |-> "ok", errors |-> {},
          args |-> Some([input_size |-> checkpoint_.input_size,
                         output_size |-> checkpoint_.output_size,
                         hidden_layers |-> checkpoint_.hidden_layers])]

\* load_checkpoint(filepath): the model it returns, or the exception it raises
load_checkpoint(f, seed) ==
    IF f.kind # "dict"
    THEN [model |-> None, status |-> "KeyError", errors |-> {}, args |-> None]
    ELSE LET checkpoint_ == LoadCheckpointDict(f)
             fresh == Network(checkpoint_.input_size, checkpoint_.output_size,
                              checkpoint_.hidden_layers, seed)
             loaded == load_state_dict(fresh, checkpoint_.state_dict)
         IN  [model |-> IF loaded.status = "ok" THEN Some(loaded.model) ELSE None,
              status |-> loaded.status, errors |-> loaded.errors,
              args |-> Some([input_size |-> checkpoint_.input_size,
                             output_size |-> checkpoint_.output_size,
                             hidden_layers |-> checkpoint_.hidden_layers])]

(***************************************************************************)
(* The state of the save/load notebook: the names of the kernel and the    *)
(* file checkpoint.pth.                                                    *)
(***************************************************************************)
VARIABLES
    pc,          \* the number In[..] of the cell that ran last
    model,       \* the network `model` is bound to, or None
    state_dict,  \* what `state_dict` is bound to (cell In[8]), or None
    checkpoint,  \* what `checkpoint` is bound to (cell In[11]), or None
    file,        \* the contents of checkpoint.pth, or None
    result,      \* how the cell that ran last ended
    source,      \* the network, as it was, that checkpoint.pth was last written from
    trained,     \* the network, as it was, when fc_model.train returned
    built        \* the arguments of the last call of fc_model.Network, or None

varsS == <<pc, model, state_dict, checkpoint, file, result, source, trained, built>>

(***************************************************************************)
(* The state of the training notebook.                                     *)
(***************************************************************************)
VARIABLES
    tpc,           \* the statement of the training notebook that runs next
    weights,       \* the data of every parameter of `model` (nn.Sequential)
    grad,          \* the .grad of every parameter: None or the gradient
    optimizer,     \* the optimizer (its learning rate), or None
    images,        \* the minibatch `images, labels` hold: how many were drawn so far
    output,        \* the forward pass `output`/`logits` holds, or None
    loss,          \* the loss tensor `loss` holds, or None
    epoch,         \* how many epochs of the training loop are over
    batch,         \* how many minibatches of the epoch were drawn
    running_loss,  \* the sum of loss.item() over the epoch
    printed,       \* the training loss printed last, or None
    initial,       \* the weights printed as "Initial weights", or None
    calls          \* the last framework calls on the parameters of `model`

varsT == <<tpc, weights, grad, optimizer, images, output, loss, epoch, batch,
           running_loss, printed, initial, calls>>

(***************************************************************************)
(* The state of the autograd cells In[4] .. In[9] of the training          *)
(* notebook.                                                               *)
(***************************************************************************)
VARIABLES
    apc,     \* the autograd cell that runs next
    x,       \* the tensor `x` is bound to (data, requires_grad, grad), or None
    y,       \* the tensor `y` is bound to (data, grad_fn), or None
    z,       \* the tensor `z` is bound to (data, grad_fn), or None
    shown    \* what the cells In[8] and In[9] printed last

varsG == <<apc, x, y, z, shown>>

vars == <<varsS, varsT, varsG>>

Ok(cell) == [cell |-> cell, status |-> "ok", errors |-> {}]
Raised(cell, status, errors) == [cell |-> cell, status |-> status, errors |-> errors]

\* the notebook before cell In[4]: the imports and the data loaders are there
InitS ==
    /\ pc = 3
    /\ model = None
    /\ state_dict = None
    /\ checkpoint = None
    /\ file = None
    /\ result = Ok(3)
    /\ source = None
    /\ trained = None
    /\ built = None

\* cell In[4]: model = fc_model.Network(input_size, output_size, hidden_layers)
Cell4(args, seed) ==
    /\ pc' = 4
    /\ built' = Some(args)
    /\ IF Len(args.hidden_layers) = 0
       THEN /\ model' = model
            /\ result' = Raised(4, "IndexError", {})
       ELSE /\ model' = Some(Network(args.input_size, args.output_size,
                                     args.hidden_layers, seed))
            /\ result' = Ok(4)
    /\ UNCHANGED <<state_dict, checkpoint, file, source, trained>>
    /\ UNCHANGED <<varsT, varsG>>

\* cell In[5]: fc_model.train(model, trainloader, testloader, criterion, optimizer, epochs=2)
Cell5(t) ==
    /\ model # None
    /\ pc' = 5
    /\ model' = Some(train(Get(model), t))
    /\ trained' = model'
    /\ result' = Ok(5)
    /\ UNCHANGED <<state_dict, checkpoint, file, source, built>>
    /\ UNCHANGED <<varsT, varsG>>

\* cell In[6]: print(model); print(model.state_dict().keys())
Cell6 ==
    /\ model # None
    /\ pc' = 6
    /\ result' = Ok(6)
    /\ UNCHANGED <<model, state_dict, checkpoint, file, source, trained, built>>
    /\ UNCHANGED <<varsT, varsG>>

\* cell In[7]: torch.save(model.state_dict(), "checkpoint.pth")
Cell7 ==
    /\ model # None
    /\ pc' = 7
    /\ file' = Some(SaveStateDict(StateDict(Get(model))))
    /\ source' = model
    /\ result' = Ok(7)
    /\ UNCHANGED <<model, state_dict, checkpoint, trained, built>>
    /\ UNCHANGED <<varsT, varsG>>

\* cell In[8]: state_dict = torch.load("checkpoint.pth")
Cell8 ==
    /\ file # None
    /\ Get(file).kind = "OrderedDict"
    /\ pc' = 8
    /\ state_dict' = Some(LoadTensors(Get(file)))
    /\ result' = Ok(8)
    /\ UNCHANGED <<model, checkpoint, file, source, trained, built>>
    /\ UNCHANGED <<varsT, varsG>>

\* cell In[9]: model.load_state_dict(state_dict)
Cell9 ==
    /\ model # None
    /\ state_dict # None
    /\ pc' = 9
    /\ LET r == load_state_dict(Get(model), Get(state_dict)) IN
        /\ model' = Some(r.model)
        /\ result' = Raised(9, r.status, r.errors)
    /\ UNCHANGED <<state_dict, checkpoint, file, source, trained, built>>
    /\ UNCHANGED <<varsT, varsG>>

\* cell In[10]: model = fc_model.Network(...); model.load_state_dict(state_dict)
Cell10(args, seed) ==
    /\ pc' = 10
    /\ built' = Some(args)
    /\ IF Len(args.hidden_layers) = 0
       THEN /\ model' = model
            /\ result' = Raised(10, "IndexError", {})
       ELSE LET fresh == Network(args.input_size, args.output_size,
                                 args.hidden_layers, seed) IN
            IF state_dict = None
            THEN /\ model' = Some(fresh)
                 /\ result' = Raised(10, "NameError", {})
            ELSE LET r == load_state_dict(fresh, Get(state_dict)) IN
                 /\ model' = Some(r.model)
                 /\ result' = Raised(10, r.status, r.errors)
    /\ UNCHANGED <<state_dict, checkpoint, file, source, trained>>
    /\ UNCHANGED <<varsT, varsG>>

\* a dictionary that lists each.in_features instead of each.out_features
CheckpointInFeatures(net) ==
    [input_size |-> CkptInputSize,
     output_size |-> CkptOutputSize,
     hidden_layers |->
        [i \in 1 .. Len(net.hidden_layers) |-> net.hidden_layers[i].in_features],
     state_dict |-> StateDict(net)]

\* the dictionary cell In[11] builds from `model`
Checkpoint(net) ==
    [input_size |-> CkptInputSize,
     output_size |-> CkptOutputSize,
     hidden_layers |-> OutFeatures(net),
     state_dict |-> StateDict(net)]

\* cell In[11]: checkpoint = {...}; torch.save(checkpoint, "checkpoint.pth")
Cell11 ==
    /\ model # None
    /\ pc' = 11
    /\ checkpoint' = Some(Checkpoint(Get(model)))
    /\ file' = Some(SaveCheckpoint(Checkpoint(Get(model))))
    /\ source' = model
    /\ result' = Ok(11)
    /\ UNCHANGED <<model, state_dict, trained, built>>
    /\ UNCHANGED <<varsT, varsG>>

\* cell In[12]: def load_checkpoint(filepath)
Cell12 ==
    /\ pc' = 12
    /\ result' = Ok(12)
    /\ UNCHANGED <<model, state_dict, checkpoint, file, source, trained, built>>
    /\ UNCHANGED <<varsT, varsG>>

\* cell In[13]: model = load_checkpoint("checkpoint.pth"); load_checkpoint is
\* bound when cell In[12] ran before
Cell13(seed) ==
    /\ file # None
    /\ pc' = 13
    /\ LET r == load_checkpoint(Get(file), seed) IN
        /\ model' = IF r.status = "ok" THEN r.model ELSE model
        /\ built' = IF r.args # None THEN r.args ELSE built
        /\ result' = Raised(13, r.status, r.errors)
    /\ UNCHANGED <<state_dict, checkpoint, file, source, trained>>
    /\ UNCHANGED <<varsT, varsG>>

(***************************************************************************)
(* SpecRecorded: the cells run once each, in the order the notebook        *)
(* records (In[4] .. In[13]), with the arguments written in them.          *)
(***************************************************************************)
RunIn4 == pc = 3 /\ \E seed \in Seeds : Cell4(TrainedArgs, seed)
RunIn5 == pc = 4 /\ \E t \in Outcomes : Cell5(t)
RunIn6 == pc = 5 /\ Cell6
RunIn7 == pc = 6 /\ Cell7
RunIn8 == pc = 7 /\ Cell8
RunIn9 == pc = 8 /\ Cell9
RunIn10 == pc = 9 /\ \E seed \in Seeds : Cell10(RebindArgs, seed)
RunIn11 == pc = 10 /\ Cell11
RunIn12 == pc = 11 /\ Cell12
RunIn13 == pc = 12 /\ \E seed \in Seeds : Cell13(seed)

NextRecorded ==
    \/ RunIn4
    \/ RunIn5
    \/ RunIn6
    \/ RunIn7
    \/ RunIn8
    \/ RunIn9
    \/ RunIn10
    \/ RunIn11
    \/ RunIn12
    \/ RunIn13

(***************************************************************************)
(* The cells run top to bottom, any of them skipped, and the two           *)
(* constructor calls with any arguments of the bounded sets.               *)
(*   SpecStateDict:  the cells In[4] .. In[10], which save and load the    *)
(*                   state dict;                                           *)
(*   SpecCheckpoint: the cells In[4], In[5] and In[11] .. In[13], which    *)
(*                   save and load the checkpoint dictionary.              *)
(***************************************************************************)
NetworkArgs ==
    [input_size : InputSizes, output_size : OutputSizes,
     hidden_layers : HiddenLists(MaxHidden)]

\* the arguments of cell In[10] with another list of hidden layer sizes
RebindArgsWith(h) == [RebindArgs EXCEPT !.hidden_layers = h]

AnyIn4 == pc < 4 /\ \E args \in NetworkArgs, seed \in Seeds : Cell4(args, seed)
AnyIn5 == pc < 5 /\ \E t \in Outcomes : Cell5(t)
AnyIn6 == pc < 6 /\ Cell6
AnyIn7 == pc < 7 /\ Cell7
AnyIn8 == pc < 8 /\ Cell8
AnyIn9 == pc < 9 /\ Cell9
AnyIn10 ==
    pc < 10 /\ \E h \in HiddenLists(MaxHidden), seed \in Seeds : Cell10(RebindArgsWith(h), seed)
AnyIn11 == pc < 11 /\ Cell11
AnyIn12 == pc < 12 /\ Cell12
AnyIn13 == pc = 12 /\ \E seed \in Seeds : Cell13(seed)

NextStateDict ==
    \/ AnyIn4
    \/ AnyIn5
    \/ AnyIn6
    \/ AnyIn7
    \/ AnyIn8
    \/ AnyIn9
    \/ AnyIn10

NextCheckpoint ==
    \/ AnyIn4
    \/ AnyIn5
    \/ AnyIn11
    \/ AnyIn12
    \/ AnyIn13

(***************************************************************************)
(* The training notebook: the parameters of nn.Sequential(Linear, ReLU,    *)
(* Linear, ReLU, Linear, LogSoftmax), their gradients and the optimizer.   *)
(* A weight is counted in thousandths of the unit of a gradient, so that   *)
(* the learning rates 0.01 and 0.003 are the whole numbers 10 and 3.       *)
(***************************************************************************)
\* how many minibatches trainloader yields in an epoch
NumBatches == 2
\* how many different loss tensors a forward pass and the criterion can give
NumLosses == 2
\* how many framework calls `calls` keeps
LogLen == 5

\* optim.SGD(model.parameters(), lr=0.01), in thousandths
LrDemo == 10
\* optim.SGD(model.parameters(), lr=0.003), in thousandths
LrLoop == 3
\* epochs = 5
Epochs == 5

ParamNames == <<"0.weight", "0.bias", "2.weight", "2.bias", "4.weight", "4.bias">>
Params == {ParamNames[i] : i \in 1 .. Len(ParamNames)}
ParamIndex(p) == CHOOSE i \in 1 .. Len(ParamNames) : ParamNames[i] = p
LossVals == 1 .. NumLosses

\* the parameters of a newly built nn.Sequential: random data, no gradient
InitWeights(seed) == [p \in Params |-> seed * 100 + 10 * ParamIndex(p)]
NoGrad == [p \in Params |-> None]

\* loss.item()
Item(l) == l
\* the gradient of the loss tensor l with respect to the parameter p
GradOf(l, p) == ((l + ParamIndex(p)) % 3) - 1

\* a zero_grad that leaves the gradients as they are
zero_grad_kept(g) == g

\* optimizer.zero_grad(): the gradients are set to None
zero_grad(g) == [p \in Params |-> None]

\* loss.backward(): the gradient of the loss is added to what .grad holds
backward(g, l) ==
    [p \in Params |->
        IF g[p] = None THEN Some(GradOf(l, p)) ELSE Some(Get(g[p]) + GradOf(l, p))]

\* a step that moves along the gradient instead of against it
step_ascent(w, g, lr) ==
    [p \in Params |-> IF g[p] = None THEN w[p] ELSE w[p] + lr * Get(g[p])]

\* optimizer.step() of SGD: p = p - lr * p.grad for every p that has a gradient
step(w, g, lr) ==
    [p \in Params |-> IF g[p] = None THEN w[p] ELSE w[p] - lr * Get(g[p])]

\* `calls` after one more framework call on the minibatch m
Logged(op, m) ==
    LET all == Append(calls, [op |-> op, images |-> m]) IN
    IF Len(all) > LogLen THEN SubSeq(all, Len(all) - LogLen + 1, Len(all)) ELSE all

\* the notebook before the cell "Build a feed-forward network" (In[10])
InitT ==
    /\ tpc = "cell10"
    /\ weights = InitWeights(0)
    /\ grad = NoGrad
    /\ optimizer = None
    /\ images = 0
    /\ output = None
    /\ loss = None
    /\ epoch = 0
    /\ batch = 0
    /\ running_loss = 0
    /\ printed = None
    /\ initial = None
    /\ calls = <<>>

\* cell In[10]: model = nn.Sequential(...); images, labels = next(dataiter);
\* logits = model(images); loss = criterion(logits, labels)
Cell10Forward ==
    /\ tpc = "cell10"
    /\ \E seed \in Seeds, l \in LossVals :
        /\ weights' = InitWeights(seed)
        /\ loss' = Some([images |-> images + 1, value |-> l])
    /\ grad' = NoGrad
    /\ images' = images + 1
    /\ output' = Some(images + 1)
    /\ calls' = <<[op |-> "forward", images |-> images + 1],
                  [op |-> "criterion", images |-> images + 1]>>
    /\ tpc' = "cell11"
    /\ UNCHANGED <<optimizer, epoch, batch, running_loss, printed, initial>>
    /\ UNCHANGED <<varsS, varsG>>

\* cell In[11]: loss.backward()
Cell11Backward ==
    /\ tpc = "cell11"
    /\ grad' = backward(grad, Get(loss).value)
    /\ calls' = Logged("backward", Get(loss).images)
    /\ tpc' = "cell12"
    /\ UNCHANGED <<weights, optimizer, images, output, loss, epoch, batch,
                   running_loss, printed, initial>>
    /\ UNCHANGED <<varsS, varsG>>

\* cell In[12]: optimizer = optim.SGD(model.parameters(), lr=0.01)
Cell12Optimizer ==
    /\ tpc = "cell12"
    /\ optimizer' = Some([lr |-> LrDemo])
    /\ tpc' = "cell13"
    /\ UNCHANGED <<weights, grad, images, output, loss, epoch, batch,
                   running_loss, printed, initial, calls>>
    /\ UNCHANGED <<varsS, varsG>>

\* cell In[13]: print("Initial weights - ", ...); images, labels = next(dataiter)
Cell13Begin ==
    /\ tpc = "cell13"
    /\ initial' = Some(weights)
    /\ images' = images + 1
    /\ tpc' = "cell13_zero_grad"
    /\ UNCHANGED <<weights, grad, optimizer, output, loss, epoch, batch,
                   running_loss, printed, calls>>
    /\ UNCHANGED <<varsS, varsG>>

\* cell In[13]: optimizer.zero_grad()
Cell13ZeroGrad ==
    /\ tpc = "cell13_zero_grad"
    /\ grad' = zero_grad(grad)
    /\ calls' = Logged("zero_grad", images)
    /\ tpc' = "cell13_forward"
    /\ UNCHANGED <<weights, optimizer, images, output, loss, epoch, batch,
                   running_loss, printed, initial>>
    /\ UNCHANGED <<varsS, varsG>>

\* cell In[13]: output = model(images)
Cell13Forward ==
    /\ tpc = "cell13_forward"
    /\ output' = Some(images)
    /\ calls' = Logged("forward", images)
    /\ tpc' = "cell13_loss"
    /\ UNCHANGED <<weights, grad, optimizer, images, loss, epoch, batch,
                   running_loss, printed, initial>>
    /\ UNCHANGED <<varsS, varsG>>

\* cell In[13]: loss = criterion(output, labels)
Cell13Loss ==
    /\ tpc = "cell13_loss"
    /\ \E l \in LossVals : loss' = Some([images |-> Get(output), value |-> l])
    /\ calls' = Logged("criterion", Get(output))
    /\ tpc' = "cell13_backward"
    /\ UNCHANGED <<weights, grad, optimizer, images, output, epoch, batch,
                   running_loss, printed, initial>>
    /\ UNCHANGED <<varsS, varsG>>

\* cell In[13]: loss.backward()
Cell13Backward ==
    /\ tpc = "cell13_backward"
    /\ grad' = backward(grad, Get(loss).value)
    /\ calls' = Logged("backward", Get(loss).images)
    /\ tpc' = "cell14"
    /\ UNCHANGED <<weights, optimizer, images, output, loss, epoch, batch,
                   running_loss, printed, initial>>
    /\ UNCHANGED <<varsS, varsG>>

\* cell In[14]: optimizer.step()
Cell14Step ==
    /\ tpc = "cell14"
    /\ weights' = step(weights, grad, Get(optimizer).lr)
    /\ calls' = Logged("step", images)
    /\ tpc' = "cell22"
    /\ UNCHANGED <<grad, optimizer, images, output, loss, epoch, batch,
                   running_loss, printed, initial>>
    /\ UNCHANGED <<varsS, varsG>>

\* cell In[22]: model = nn.Sequential(...); criterion = nn.NLLLoss();
\* optimizer = optim.SGD(model.parameters(), lr=0.003); epochs = 5
Cell22Setup ==
    /\ tpc = "cell22"
    /\ \E seed \in Seeds : weights' = InitWeights(seed)
    /\ grad' = NoGrad
    /\ optimizer' = Some([lr |-> LrLoop])
    /\ epoch' = 0
    /\ calls' = <<>>
    /\ tpc' = "for_epoch"
    /\ UNCHANGED <<images, output, loss, batch, running_loss, printed, initial>>
    /\ UNCHANGED <<varsS, varsG>>

\* for _ in range(epochs): running_loss = 0
LoopEpoch ==
    /\ tpc = "for_epoch"
    /\ IF epoch < Epochs
       THEN /\ running_loss' = 0
            /\ batch' = 0
            /\ tpc' = "for_batch"
       ELSE /\ tpc' = "done"
            /\ UNCHANGED <<running_loss, batch>>
    /\ UNCHANGED <<weights, grad, optimizer, images, output, loss, epoch, printed,
                   initial, calls>>
    /\ UNCHANGED <<varsS, varsG>>

\* for images, labels in trainloader: images = images.view(images.shape[0], -1)
LoopNextBatch ==
    /\ tpc = "for_batch"
    /\ IF batch < NumBatches
       THEN /\ batch' = batch + 1
            /\ images' = images + 1
            /\ tpc' = "zero_grad"
       ELSE /\ tpc' = "print"
            /\ UNCHANGED <<batch, images>>
    /\ UNCHANGED <<weights, grad, optimizer, output, loss, epoch, running_loss,
                   printed, initial, calls>>
    /\ UNCHANGED <<varsS, varsG>>

\* a loop body without the line optimizer.zero_grad()
LoopZeroGradLeftOut ==
    /\ tpc = "zero_grad"
    /\ tpc' = "forward"
    /\ UNCHANGED <<weights, grad, optimizer, images, output, loss, epoch, batch,
                   running_loss, printed, initial, calls>>
    /\ UNCHANGED <<varsS, varsG>>

\* optimizer.zero_grad()
LoopZeroGrad ==
    /\ tpc = "zero_grad"
    /\ grad' = zero_grad(grad)
    /\ calls' = Logged("zero_grad", images)
    /\ tpc' = "forward"
    /\ UNCHANGED <<weights, optimizer, images, output, loss, epoch, batch,
                   running_loss, printed, initial>>
    /\ UNCHANGED <<varsS, varsG>>

\* output = model(images)
LoopForward ==
    /\ tpc = "forward"
    /\ output' = Some(images)
    /\ calls' = Logged("forward", images)
    /\ tpc' = "loss"
    /\ UNCHANGED <<weights, grad, optimizer, images, loss, epoch, batch,
                   running_loss, printed, initial>>
    /\ UNCHANGED <<varsS, varsG>>

\* loss = criterion(output, labels)
LoopLoss ==
    /\ tpc = "loss"
    /\ \E l \in LossVals : loss' = Some([images |-> Get(output), value |-> l])
    /\ calls' = Logged("criterion", Get(output))
    /\ tpc' = "backward"
    /\ UNCHANGED <<weights, grad, optimizer, images, output, epoch, batch,
                   running_loss, printed, initial>>
    /\ UNCHANGED <<varsS, varsG>>

\* loss.backward()
LoopBackward ==
    /\ tpc = "backward"
    /\ grad' = backward(grad, Get(loss).value)
    /\ calls' = Logged("backward", Get(loss).images)
    /\ tpc' = "step"
    /\ UNCHANGED <<weights, optimizer, images, output, loss, epoch, batch,
                   running_loss, printed, initial>>
    /\ UNCHANGED <<varsS, varsG>>

\* optimizer.step()
LoopStep ==
    /\ tpc = "step"
    /\ weights' = step(weights, grad, Get(optimizer).lr)
    /\ calls' = Logged("step", images)
    /\ tpc' = "running_loss"
    /\ UNCHANGED <<grad, optimizer, images, output, loss, epoch, batch,
                   running_loss, printed, initial>>
    /\ UNCHANGED <<varsS, varsG>>

\* running_loss += loss.item()
LoopRunningLoss ==
    /\ tpc = "running_loss"
    /\ running_loss' = running_loss + Item(Get(loss).value)
    /\ tpc' = "for_batch"
    /\ UNCHANGED <<weights, grad, optimizer, images, output, loss, epoch, batch,
                   printed, initial, calls>>
    /\ UNCHANGED <<varsS, varsG>>

\* else: print(f"Training loss: {running_loss/len(trainloader)}"); the printed
\* number is kept as the sum, in units of 1/len(trainloader)
LoopPrint ==
    /\ tpc = "print"
    /\ printed' = Some(running_loss)
    /\ epoch' = epoch + 1
    /\ tpc' = "for_epoch"
    /\ UNCHANGED <<weights, grad, optimizer, images, output, loss, batch,
                   running_loss, initial, calls>>
    /\ UNCHANGED <<varsS, varsG>>

NextTrain ==
    \/ Cell10Forward
    \/ Cell11Backward
    \/ Cell12Optimizer
    \/ Cell13Begin
    \/ Cell13ZeroGrad
    \/ Cell13Forward
    \/ Cell13Loss
    \/ Cell13Backward
    \/ Cell14Step
    \/ Cell22Setup
    \/ LoopEpoch
    \/ LoopNextBatch
    \/ LoopZeroGrad
    \/ LoopForward
    \/ LoopLoss
    \/ LoopBackward
    \/ LoopStep
    \/ LoopRunningLoss
    \/ LoopPrint

(***************************************************************************)
(* The autograd cells In[4] .. In[9] of the training notebook:             *)
(* x = torch.randn(2, 2, requires_grad=True), y = x**2, z = y.mean(),      *)
(* z.backward().  The elements of a tensor are exact fractions num/den in  *)
(* lowest terms; a tensor's data is the sequence of its elements in        *)
(* row-major order.                                                        *)
(***************************************************************************)
\* the largest numerator of an element torch.randn draws
MaxNum == 1
\* the largest denominator of an element torch.randn draws
MaxDen == 2

\* torch.randn(2, 2, ...): the number of rows and of columns
XRows == 2
XCols == 2
\* the exponent of y = x**2
Exponent == 2

Abs(n) == IF n < 0 THEN -n ELSE n

RECURSIVE GCD(_, _)
GCD(a, b) == IF b = 0 THEN a ELSE GCD(b, a % b)

\* the fraction n/d (d # 0) in lowest terms with a positive denominator
Rat(n, d) ==
    LET g == GCD(Abs(n), Abs(d))
        s == IF d < 0 THEN -1 ELSE 1
    IN  [num |-> (s * n) \div g, den |-> Abs(d) \div g]

RatMul(a, b) == Rat(a.num * b.num, a.den * b.den)
RatAdd(a, b) == Rat(a.num * b.den + b.num * a.den, a.den * b.den)
\* the fraction a times the number k, the fraction a divided by the number k
Scale(k, a) == Rat(k * a.num, a.den)
DivideBy(a, k) == Rat(a.num, a.den * k)

RECURSIVE RatPow(_, _)
RatPow(a, k) == IF k = 0 THEN Rat(1, 1) ELSE RatMul(a, RatPow(a, k - 1))

RECURSIVE RatSum(_)
RatSum(t) == IF t = <<>> THEN Rat(0, 1) ELSE RatAdd(Head(t), RatSum(Tail(t)))

\* the values an element of torch.randn(...) takes
Elements == {Rat(n, d) : n \in (-MaxNum) .. MaxNum, d \in 1 .. MaxDen}

\* torch.numel(t)
numel(t) == Len(t.data)

\* a new tensor whose .grad starts as zeros instead of None
randn_zero_grad(data) ==
    [data |-> data, requires_grad |-> TRUE,
     grad |-> Some([i \in 1 .. Len(data) |-> Rat(0, 1)])]

\* torch.randn(2, 2, requires_grad=True) with the drawn elements `data`:
\* a leaf tensor, its .grad is None
randn(data) == [data |-> data, requires_grad |-> TRUE, grad |-> None]

\* x**2: the elementwise power, recorded as PowBackward0
Pow(t, k) ==
    [data |-> [i \in 1 .. numel(t) |-> RatPow(t.data[i], k)],
     grad_fn |-> "PowBackward0"]

\* y.mean(): the mean of all elements, recorded as MeanBackward0
Mean(t) ==
    [data |-> DivideBy(RatSum(t.data), numel(t)), grad_fn |-> "MeanBackward0"]

\* a backward of the mean that hands the incoming gradient on undivided
MeanBackwardSum(g, n) == [i \in 1 .. n |-> g]

\* MeanBackward0: every one of the n elements gets the incoming gradient / n
MeanBackward(g, n) == [i \in 1 .. n |-> DivideBy(g, n)]

\* PowBackward0: the incoming gradient times k * input**(k - 1), elementwise
PowBackward(g, data, k) ==
    [i \in 1 .. Len(data) |-> RatMul(g[i], Scale(k, RatPow(data[i], k - 1)))]

\* AccumulateGrad: a leaf's .grad is set if it is None, added to otherwise
AccumulateGrad(t, g) ==
    [t EXCEPT !.grad =
        IF t.grad = None
        THEN Some(g)
        ELSE Some([i \in 1 .. Len(g) |-> RatAdd(Get(t.grad)[i], g[i])])]

\* z.backward() for z = (t**k).mean(): the gradient 1 of z goes back through
\* MeanBackward0 and PowBackward0 and is accumulated in the leaf t
backward_z(t, k) ==
    AccumulateGrad(t, PowBackward(MeanBackward(Rat(1, 1), numel(t)), t.data, k))

\* 2 * x / torch.numel(x)
TwoXOverN(t) == [i \in 1 .. numel(t) |-> DivideBy(Scale(2, t.data[i]), numel(t))]

\* the training notebook before its cell In[4]
InitG ==
    /\ apc = "cell4"
    /\ x = None
    /\ y = None
    /\ z = None
    /\ shown = None

\* cell In[4]: x = torch.randn(2, 2, requires_grad=True); print(x)
Cell4Randn ==
    /\ apc = "cell4"
    /\ \E data \in [1 .. XRows * XCols -> Elements] : x' = Some(randn(data))
    /\ apc' = "cell5"
    /\ UNCHANGED <<y, z, shown>>
    /\ UNCHANGED <<varsS, varsT>>

\* cell In[5]: y = x**2; print(y)
Cell5Pow ==
    /\ apc = "cell5"
    /\ y' = Some(Pow(Get(x), Exponent))
    /\ apc' = "cell6"
    /\ UNCHANGED <<x, z, shown>>
    /\ UNCHANGED <<varsS, varsT>>

\* cell In[6]: print(y.grad_fn)
Cell6GradFn ==
    /\ apc = "cell6"
    /\ shown' = Some(Get(y).grad_fn)
    /\ apc' = "cell7"
    /\ UNCHANGED <<x, y, z>>
    /\ UNCHANGED <<varsS, varsT>>

\* cell In[7]: z = y.mean(); print(z)
Cell7Mean ==
    /\ apc = "cell7"
    /\ z' = Some(Mean(Get(y)))
    /\ apc' = "cell8"
    /\ UNCHANGED <<x, y, shown>>
    /\ UNCHANGED <<varsS, varsT>>

\* cell In[8]: print(x.grad)
Cell8PrintGrad ==
    /\ apc = "cell8"
    /\ shown' = Some(Get(x).grad)
    /\ apc' = "cell9"
    /\ UNCHANGED <<x, y, z>>
    /\ UNCHANGED <<varsS, varsT>>

\* cell In[9]: z.backward(); print(x.grad); print(2 * x / torch.numel(x))
Cell9Backward ==
    /\ apc = "cell9"
    /\ x' = Some(backward_z(Get(x), Exponent))
    /\ shown' = Some(<<x'[1].grad, TwoXOverN(x'[1])>>)
    /\ apc' = "cell10"
    /\ UNCHANGED <<y, z>>
    /\ UNCHANGED <<varsS, varsT>>

\* cell In[10] after the autograd cells: a newly built network and its loss
AutogradCell10 ==
    /\ apc = "cell10"
    /\ Cell10Forward

\* cell In[11] after the autograd cells: loss.backward()
AutogradCell11 ==
    /\ apc = "cell10"
    /\ Cell11Backward

NextAutograd ==
    \/ Cell4Randn
    \/ Cell5Pow
    \/ Cell6GradFn
    \/ Cell7Mean
    \/ Cell8PrintGrad
    \/ Cell9Backward
    \/ AutogradCell10
    \/ AutogradCell11

(***************************************************************************)
(* The specifications: each notebook runs in a kernel of its own, from the *)
(* state before its first modelled cell.                                   *)
(***************************************************************************)
Init == InitS /\ InitT /\ InitG

\* the save/load notebook, its cells in the recorded order
SpecRecorded == Init /\ [][NextRecorded]_vars
\* the cells In[4] .. In[10] of the save/load notebook, any of them skipped
SpecStateDict == Init /\ [][NextStateDict]_vars
\* the cells In[4], In[5], In[11] .. In[13] of the save/load notebook
SpecCheckpoint == Init /\ [][NextCheckpoint]_vars
\* the training notebook from cell In[10] on
SpecTrain == Init /\ [][NextTrain]_vars
\* the training notebook from its autograd cell In[4] to cell In[11]
SpecAutograd == Init /\ [][NextAutograd]_vars

(***************************************************************************)
(* What the claims about the save/load notebook speak of.                  *)
(***************************************************************************)
InputSizeOf(net) == net.hidden_layers[1].in_features
OutputSizeOf(net) == net.output.out_features

SameArchitecture(a, b) ==
    /\ InputSizeOf(a) = InputSizeOf(b)
    /\ OutputSizeOf(a) = OutputSizeOf(b)
    /\ OutFeatures(a) = OutFeatures(b)

\* net is the chain of linear layers the constructor arguments a describe
IsChain(net, a) ==
    LET n == Len(a.hidden_layers) IN
    /\ Len(net.hidden_layers) = n
    /\ net.hidden_layers[1].in_features = a.input_size
    /\ \A i \in 1 .. n : net.hidden_layers[i].out_features = a.hidden_layers[i]
    /\ \A i \in 2 .. n : net.hidden_layers[i].in_features = a.hidden_layers[i - 1]
    /\ net.output.in_features = a.hidden_layers[n]
    /\ net.output.out_features = a.output_size

\* C1 (SpecCheckpoint): when the checkpoint dictionary of cell In[11] is saved
\* from a network with input size 784 and output size 10, load_checkpoint
\* returns a model of the same input size, output size and hidden layer sizes,
\* in the same order, whose state dict equals the saved one entry for entry.
C1_CheckpointRoundTrip ==
    (pc = 13 /\ InputSizeOf(Get(source)) = 784 /\ OutputSizeOf(Get(source)) = 10)
        => /\ result.status = "ok"
           /\ SameArchitecture(Get(model), Get(source))
           /\ StateDict(Get(model)) = Get(checkpoint).state_dict

\* a trained network of two hidden layers came back from load_checkpoint
C1_Witness ==
    /\ pc = 13
    /\ result.status = "ok"
    /\ trained = source
    /\ Len(Get(source).hidden_layers) >= 2
    /\ InputSizeOf(Get(source)) = 784
    /\ OutputSizeOf(Get(source)) = 10

\* C2 (SpecRecorded): after the cells ran in their recorded order, the model
\* load_checkpoint("checkpoint.pth") returns has the architecture and the
\* parameters of the network fc_model.train trained.
C2_RebuildsTrainedModel ==
    (pc = 13 /\ result.status = "ok")
        => /\ SameArchitecture(Get(model), Get(trained))
           /\ StateDict(Get(model)) = StateDict(Get(trained))

\* C3 (SpecStateDict): a state dict saved from Network(784, 10, H) loads into a
\* new Network(784, 10, H') when H' = H, and raises RuntimeError when H' differs
\* from H; when H' has as many layers as H the error names a size mismatch.
C3_LoadOnlySameArchitecture ==
    (/\ pc = 10
     /\ state_dict # None
     /\ result.status # "IndexError"
     /\ InputSizeOf(Get(source)) = 784
     /\ OutputSizeOf(Get(source)) = 10)
        => LET H == OutFeatures(Get(source))
               Hp == Get(built).hidden_layers
           IN  /\ (Hp = H) => result.status = "ok"
               /\ (Hp # H) => result.status = "RuntimeError"
               /\ (Hp # H /\ Len(Hp) = Len(H))
                    => \E e \in result.errors : e[1] = "size mismatch"

\* the load failed for a network that differs in the second hidden layer only
C3_Witness ==
    /\ pc = 10
    /\ state_dict # None
    /\ source # None
    /\ InputSizeOf(Get(source)) = 784
    /\ OutputSizeOf(Get(source)) = 10
    /\ Len(OutFeatures(Get(source))) = 2
    /\ Len(Get(built).hidden_layers) = 2
    /\ Get(built).hidden_layers[1] = OutFeatures(Get(source))[1]
    /\ Get(built).hidden_layers[2] # OutFeatures(Get(source))[2]
    /\ result.status = "RuntimeError"

\* what torch.load reads back from checkpoint.pth describes a network whose
\* parameters have the names and shapes of the stored state dict, and
\* load_checkpoint does not raise
CheckpointRebuilds ==
    LET c == LoadCheckpointDict(Get(file))
        described == Network(c.input_size, c.output_size, c.hidden_layers, 0)
    IN  /\ SameArchitecture(described, Get(source))
        /\ Keys(StateDict(described)) = Keys(c.state_dict)
        /\ Shapes(StateDict(described)) = Shapes(c.state_dict)
        /\ (pc = 13 => result.status = "ok")

\* C6 as stated (SpecCheckpoint): for a network of any input and output size
\* the checkpoint dictionary describes the network it was built from, and
\* load_checkpoint does not raise.
C6_AnyModelRebuilds == (checkpoint # None) => CheckpointRebuilds

\* C6 as amended (SpecCheckpoint): the same for a network of input size 784 and
\* output size 10, the sizes the checkpoint dictionary writes.
C6_CheckpointDescribesModel ==
    (/\ checkpoint # None
     /\ InputSizeOf(Get(source)) = CkptInputSize
     /\ OutputSizeOf(Get(source)) = CkptOutputSize)
        => CheckpointRebuilds

\* the checkpoint of a 784-to-10 network of two hidden layers was written
C6_Witness ==
    /\ pc = 11
    /\ checkpoint # None
    /\ InputSizeOf(Get(source)) = CkptInputSize
    /\ OutputSizeOf(Get(source)) = CkptOutputSize
    /\ Len(Get(source).hidden_layers) >= 2

\* C7 (SpecStateDict): the mapping torch.load reads back has the keys of
\* model.state_dict() in the same order, and model.load_state_dict of it into
\* the same model reports no error and leaves every parameter as it was when
\* the state dict was saved.
C7_StateDictRoundTrip ==
    /\ (pc = 8 => Keys(Get(state_dict)) = Keys(StateDict(Get(model))))
    /\ (pc = 9 => /\ result.status = "ok"
                  /\ result.errors = {}
                  /\ Get(model) = Get(source))

\* the state dict of a trained network was loaded back into it
C7_Witness ==
    /\ pc = 9
    /\ result.status = "ok"
    /\ trained = model
    /\ Len(Get(model).hidden_layers) >= 2

\* C8 (SpecCheckpoint): the network cell In[4] constructs and the network
\* load_checkpoint rebuilds are chains of linear layers: the first takes
\* input_size, hidden layer i has out_features hidden_layers[i] and takes the
\* out_features of the layer before it, the output layer maps the last hidden
\* size to output_size, and there are len(hidden_layers) hidden layers.
C8_ChainOfLinearLayers ==
    (pc \in {4, 13} /\ result.status = "ok") => IsChain(Get(model), Get(built))

\* load_checkpoint rebuilt a network of two hidden layers
C8_Witness ==
    /\ pc = 13
    /\ result.status = "ok"
    /\ Len(Get(built).hidden_layers) >= 2
    /\ Len(Get(model).hidden_layers) >= 2

(***************************************************************************)
(* What the claims about the training notebook speak of.                   *)
(***************************************************************************)
InLoop ==
    tpc \in {"for_epoch", "for_batch", "zero_grad", "forward", "loss", "backward",
             "step", "running_loss", "print", "done"}

\* the names of the last k calls, and whether they were on one minibatch
LastOps(k) == [i \in 1 .. k |-> calls[Len(calls) - k + i].op]
LastOnOneBatch(k) ==
    \A i \in 1 .. k : calls[Len(calls) - k + i].images = calls[Len(calls)].images

\* C4 (SpecTrain): in the training loop every minibatch goes through
\* optimizer.zero_grad(), model(images), criterion(output, labels),
\* loss.backward(), optimizer.step() in this order; a step comes right after
\* the backward pass on the loss of the same minibatch, and a backward pass
\* has a zero_grad after the backward pass before it.
C4_TrainingPassOrder ==
    LET n == Len(calls) IN
    (InLoop /\ n >= 1)
        => /\ calls[n].op = "step"
                => /\ n >= 5
                   /\ LastOps(5) = <<"zero_grad", "forward", "criterion", "backward", "step">>
                   /\ LastOnOneBatch(5)
           /\ tpc = "running_loss"
                => calls[n].op = "step" /\ calls[n].images = images
           /\ calls[n].op = "backward"
                => \E j \in 1 .. n - 1 :
                       /\ calls[j].op = "zero_grad"
                       /\ \A i \in j + 1 .. n - 1 : calls[i].op # "backward"

\* the step on the last minibatch of a later epoch was taken
C4_Witness ==
    /\ tpc = "running_loss"
    /\ epoch >= 1
    /\ batch = NumBatches
    /\ calls[Len(calls)].op = "step"

\* C5 (SpecTrain): at every optimizer.step(), in the single training step and
\* in the training loop, the gradient of each parameter is the gradient of the
\* loss of the current minibatch alone.
C5_GradientOfCurrentBatchOnly ==
    (tpc \in {"cell14", "step"})
        => /\ Get(loss).images = images
           /\ \A p \in Params : grad[p] = Some(GradOf(Get(loss).value, p))

\* the last step of the training loop is about to be taken
C5_Witness ==
    /\ tpc = "step"
    /\ epoch = Epochs - 1
    /\ batch = NumBatches
    /\ \E p \in Params : grad[p] # None /\ Get(grad[p]) # 0

\* C10 (SpecTrain): in the single training step optimizer.zero_grad(), the
\* forward pass, the loss and loss.backward() leave every weight as printed
\* under "Initial weights" (backward fills the gradients), and after
\* optimizer.step() every weight is the initial weight minus the learning rate
\* times the gradient of that backward pass.
C10_WeightsChangeOnlyInStep ==
    /\ tpc \in {"cell13_zero_grad", "cell13_forward", "cell13_loss",
                "cell13_backward", "cell14"}
        => weights = Get(initial)
    /\ tpc = "cell14" => \A p \in Params : grad[p] # None
    /\ tpc = "cell22"
        => \A p \in Params :
               weights[p] = Get(initial)[p] - LrDemo * GradOf(Get(loss).value, p)

\* the single step was taken and changed a weight
C10_Witness ==
    /\ tpc = "cell22"
    /\ initial # None
    /\ weights # Get(initial)

(***************************************************************************)
(* What the claims about the autograd cells speak of.                      *)
(***************************************************************************)
\* z.backward() has not run yet on the tensor x is bound to
BeforeBackwardZ == apc \in {"cell5", "cell6", "cell7", "cell8", "cell9"}
\* z.backward() has run
AfterBackwardZ == apc = "cell10"

\* C11 (SpecAutograd): a tensor or parameter that requires gradients has the
\* gradient None from its creation until the first backward pass through
\* it and a gradient after that pass: x.grad is None from cell In[4] until
\* z.backward() in cell In[9] (cell In[8] prints None) and set after it; the
\* .grad of every parameter of the network built in cell In[10] is None
\* before loss.backward() in cell In[11] and set after it.
C11_GradNoneUntilBackward ==
    /\ BeforeBackwardZ
        => /\ Get(x).requires_grad
           /\ Get(x).grad = None
    /\ apc = "cell9" => shown = Some(None)
    /\ AfterBackwardZ
        => /\ Get(x).grad # None
           /\ Len(Get(Get(x).grad)) = numel(Get(x))
    /\ (AfterBackwardZ /\ tpc = "cell11") => \A p \in Params : grad[p] = None
    /\ (AfterBackwardZ /\ tpc = "cell12") => \A p \in Params : grad[p] # None

\* both backward passes have run: x and the parameters hold gradients
C11_Witness ==
    /\ AfterBackwardZ
    /\ tpc = "cell12"
    /\ Get(x).grad # None
    /\ shown # Some(None)
    /\ \A p \in Params : grad[p] # None

\* C12 (SpecAutograd): for z = mean(x**2) over the n elements of x, the
\* gradient z.backward() stores in x.grad equals 2 * x / n element by
\* element, for every x; the two tensors cell In[9] prints are equal.
C12_GradIsTwoXOverN ==
    AfterBackwardZ
        => /\ Get(x).grad # None
           /\ \A i \in 1 .. numel(Get(x)) :
                  Get(Get(x).grad)[i]
                      = Rat(2 * Get(x).data[i].num, Get(x).data[i].den * numel(Get(x)))
           /\ Get(shown)[1] = Some(Get(shown)[2])

\* z.backward() has run on an x with a negative, a positive, a whole and a
\* fractional element
C12_Witness ==
    /\ AfterBackwardZ
    /\ Get(x).grad # None
    /\ \E i, j, k, l \in 1 .. numel(Get(x)) :
           /\ Get(x).data[i].num < 0
           /\ Get(x).data[j].num > 0
           /\ Get(x).data[k].den = 1
           /\ Get(x).data[l].den > 1

====
